---- MODULE Spec2Model ----
\* swaycycle v0.3.0: one invocation connects to sway, fetches the tree, collects
\* the visible windows of the current workspace, selects the next/previous one
\* and sends "[con_id=<id>] focus".
EXTENDS Integers, Sequences, FiniteSets, TLC

VARIABLES
    tree,              \* the window manager's scene graph (what GET_TREE answers)
    sway,              \* <<>> before GetTree, <<node>> once main holds the tree
    Visibles,          \* global: the nodes appended by recurseNodes, in order
    CurrentWorkspace,  \* global: name recorded by processJSON
    Previous,          \* flag --prev
    Notswitch,         \* flag --no-switch
    pc,                \* position of main
    id,                \* main's local id (selected target)
    conn,              \* "none" | "open" | "closed": the ipc connection
    sent,              \* requests written to the connection, in order
    exit,              \* -1 while running, else the process exit status
    logs,              \* log records emitted (slog.Info / log.Fatal / panic)
    reply,             \* <<>>, or <<what RunContainerCommand returned>>
    runs,              \* number of processJSON calls made on the tree held in sway
    lists,             \* Visibles (as ids) observed after each processJSON call
    invocations,       \* number of invocations started against this window manager
    hist               \* the id focused at the start (0: none), then each id the
                       \* window manager moved the focus to

vars == <<tree, sway, Visibles, CurrentWorkspace, Previous, Notswitch, pc, id,
          conn, sent, exit, logs, reply, runs, lists, invocations, hist>>

\* ---------------------------------------------------------------- bounds
MaxNodes == 2        \* ordinary children of the current workspace
MaxRuns == 2         \* processJSON calls in the resolver harness
MaxInvocations == 6  \* successive invocations in the cycling harness

\* ------------------------------------------------------- node type tags
root == 1
output == 2
workspace == 3
con == 4
floating == 5

IPC_GET_TREE == 4
IPC_RUN_COMMAND == 0

\* ------------------------------------------------------------ tree nodes
\* i3ipc.Node as far as main reads it.
Node(nid, type, name, nodes, floats, window, app, cw) ==
    [Id |-> nid, Type |-> type, Name |-> name, Nodes |-> nodes,
     FloatingNodes |-> floats, Focused |-> FALSE, Window |-> window,
     X11Window |-> app, Current_workspace |-> cw]

istype(nd, which) ==
    CASE nd.Type = "root" -> which = root
      [] nd.Type = "output" -> which = output
      [] nd.Type = "workspace" -> which = workspace
      [] nd.Type = "con" -> which = con
      [] nd.Type = "floating_con" -> which = floating
      [] OTHER -> FALSE

\* IsWindow without the app_id alternative
IsWindowHandleOnly(node) ==
    /\ (istype(node, con) \/ istype(node, floating))
    /\ node.Window > 0

\* IsWindow that takes only childless containers for windows
IsWindowLeafOnly(node) ==
    /\ (istype(node, con) \/ istype(node, floating))
    /\ (node.Window > 0 \/ node.X11Window # "")
    /\ Len(node.Nodes) = 0

\* the test of recurseNodes that makes a node a visible window
IsWindow(node) ==
    /\ (istype(node, con) \/ istype(node, floating))
    /\ (node.Window > 0 \/ node.X11Window # "")

\* ---------------------------------------------------- Visibility Resolver
\* The loop of recurseNodes from element k on. Nodes are pointers, so the merge
\* node.Nodes = append(node.Nodes, node.FloatingNodes...) stays in the tree: the
\* result carries the node list as the call leaves it and the grown Visibles.
RECURSIVE recurseFrom(_, _, _, _)
recurseFrom(nodes, k, cw, vis) ==
    IF k > Len(nodes)
    THEN [nodes |-> nodes, vis |-> vis]
    ELSE LET node == [nodes[k] EXCEPT !.Nodes = @ \o nodes[k].FloatingNodes]
         IN  IF istype(node, workspace)
             THEN IF node.Name = cw
                  THEN \* recurse, then return: later siblings are not visited
                       LET r == recurseFrom(node.Nodes, 1, cw, vis)
                       IN  [nodes |-> [nodes EXCEPT ![k] = [node EXCEPT !.Nodes = r.nodes]],
                            vis |-> r.vis]
                  ELSE \* ignore other workspaces
                       recurseFrom([nodes EXCEPT ![k] = node], k + 1, cw, vis)
             ELSE IF IsWindow(node)
                  THEN recurseFrom([nodes EXCEPT ![k] = node], k + 1, cw,
                                   Append(vis, node))
                  ELSE LET r == recurseFrom(node.Nodes, 1, cw, vis)
                       IN  recurseFrom(
                               [nodes EXCEPT ![k] = [node EXCEPT !.Nodes = r.nodes]],
                               k + 1, cw, r.vis)

\* recurseNodes without the "continue" for other workspaces: a workspace that is
\* not the current one falls through and is descended into like a container
RECURSIVE recurseFromAll(_, _, _, _)
recurseFromAll(nodes, k, cw, vis) ==
    IF k > Len(nodes)
    THEN [nodes |-> nodes, vis |-> vis]
    ELSE LET node == [nodes[k] EXCEPT !.Nodes = @ \o nodes[k].FloatingNodes]
         IN  IF istype(node, workspace) /\ node.Name = cw
             THEN LET r == recurseFromAll(node.Nodes, 1, cw, vis)
                  IN  [nodes |-> [nodes EXCEPT ![k] = [node EXCEPT !.Nodes = r.nodes]],
                       vis |-> r.vis]
             ELSE IF IsWindow(node)
                  THEN recurseFromAll([nodes EXCEPT ![k] = node], k + 1, cw,
                                      Append(vis, node))
                  ELSE LET r == recurseFromAll(node.Nodes, 1, cw, vis)
                       IN  recurseFromAll(
                               [nodes EXCEPT ![k] = [node EXCEPT !.Nodes = r.nodes]],
                               k + 1, cw, r.vis)

recurseNodesAllWorkspaces(nodes, cw, vis) == recurseFromAll(nodes, 1, cw, vis)

\* recurseNodes that puts the floating children in front of the ordinary ones
RECURSIVE recurseFromFloatFirst(_, _, _, _)
recurseFromFloatFirst(nodes, k, cw, vis) ==
    IF k > Len(nodes)
    THEN [nodes |-> nodes, vis |-> vis]
    ELSE LET node == [nodes[k] EXCEPT !.Nodes = nodes[k].FloatingNodes \o @]
         IN  IF istype(node, workspace)
             THEN IF node.Name = cw
                  THEN LET r == recurseFromFloatFirst(node.Nodes, 1, cw, vis)
                       IN  [nodes |-> [nodes EXCEPT ![k] = [node EXCEPT !.Nodes = r.nodes]],
                            vis |-> r.vis]
                  ELSE recurseFromFloatFirst([nodes EXCEPT ![k] = node], k + 1, cw, vis)
             ELSE IF IsWindow(node)
                  THEN recurseFromFloatFirst([nodes EXCEPT ![k] = node], k + 1, cw,
                                             Append(vis, node))
                  ELSE LET r == recurseFromFloatFirst(node.Nodes, 1, cw, vis)
                       IN  recurseFromFloatFirst(
                               [nodes EXCEPT ![k] = [node EXCEPT !.Nodes = r.nodes]],
                               k + 1, cw, r.vis)

recurseNodesFloatFirst(nodes, cw, vis) == recurseFromFloatFirst(nodes, 1, cw, vis)

recurseNodes(nodes, cw, vis) == recurseFrom(nodes, 1, cw, vis)

\* the scan of the outputs without the break: the last output naming a workspace wins
RECURSIVE LastOutput(_, _)
LastOutput(nodes, k) ==
    IF k > Len(nodes) THEN 0
    ELSE LET later == LastOutput(nodes, k + 1)
         IN  IF later # 0 THEN later
             ELSE IF nodes[k].Current_workspace # "" THEN k ELSE 0

\* index of the first child of the root with a non-empty current_workspace, 0 if none
RECURSIVE FirstOutput(_, _)
FirstOutput(nodes, k) ==
    IF k > Len(nodes) THEN 0
    ELSE IF nodes[k].Current_workspace # "" THEN k
    ELSE FirstOutput(nodes, k + 1)

\* processJSON that rejects a tree when either test fails (|| for &&)
processJSONEitherTest(t, vis, cw) ==
    IF ~istype(t, root) \/ Len(t.Nodes) = 0
    THEN [err |-> TRUE, sway |-> t, Visibles |-> vis, CurrentWorkspace |-> cw]
    ELSE LET k == FirstOutput(t.Nodes, 1)
         IN  IF k = 0
             THEN [err |-> FALSE, sway |-> t, Visibles |-> vis, CurrentWorkspace |-> cw]
             ELSE LET name == t.Nodes[k].Current_workspace
                      r == recurseNodes(t.Nodes[k].Nodes, name, vis)
                  IN  [err |-> FALSE,
                       sway |-> [t EXCEPT !.Nodes[k].Nodes = r.nodes],
                       Visibles |-> r.vis,
                       CurrentWorkspace |-> name]

\* processJSON(sway) with the globals it reads and writes made explicit.
processJSON(t, vis, cw) ==
    IF ~istype(t, root) /\ Len(t.Nodes) = 0
    THEN [err |-> TRUE, sway |-> t, Visibles |-> vis, CurrentWorkspace |-> cw]
    ELSE LET k == FirstOutput(t.Nodes, 1)
         IN  IF k = 0
             THEN [err |-> FALSE, sway |-> t, Visibles |-> vis, CurrentWorkspace |-> cw]
             ELSE LET name == t.Nodes[k].Current_workspace
                      r == recurseNodes(t.Nodes[k].Nodes, name, vis)
                  IN  [err |-> FALSE,
                       sway |-> [t EXCEPT !.Nodes[k].Nodes = r.nodes],
                       Visibles |-> r.vis,
                       CurrentWorkspace |-> name]

\* ---------------------------------------------------------------- Selector
FocusedIn(V) == {k \in 1..Len(V) : V[k].Focused}

RECURSIVE NextScan(_, _, _)
NextScan(V, k, seenfocused) ==
    IF k > Len(V)
    THEN IF seenfocused THEN V[1].Id ELSE 0
    ELSE IF V[k].Focused
         THEN NextScan(V, k + 1, TRUE)
         ELSE IF seenfocused THEN V[k].Id ELSE NextScan(V, k + 1, seenfocused)

\* findNextWindow that forgets where the focus was: the first unfocused entry
findNextFirstOther(V) ==
    IF \A k \in 1..Len(V) : ~V[k].Focused THEN 0
    ELSE IF \A k \in 1..Len(V) : V[k].Focused THEN V[1].Id
    ELSE V[CHOOSE k \in 1..Len(V) :
               ~V[k].Focused /\ \A j \in 1..(k - 1) : V[j].Focused].Id

\* findNextWindow that returns at the focused entry itself
findNextStay(V) ==
    IF FocusedIn(V) = {} THEN 0
    ELSE V[CHOOSE k \in FocusedIn(V) : \A j \in FocusedIn(V) : k <= j].Id

\* findNextWindow without the wrap to the first entry
findNextNoWrap(V) ==
    IF Len(V) = 0 \/ V[Len(V)].Focused THEN 0 ELSE NextScan(V, 1, FALSE)

findNextWindow(V) == IF Len(V) = 0 THEN 0 ELSE NextScan(V, 1, FALSE)

RECURSIVE PrevScan(_, _, _)
PrevScan(V, k, prevnode) ==
    IF k > Len(V) THEN 0
    ELSE IF V[k].Focused THEN prevnode
    ELSE PrevScan(V, k + 1, V[k].Id)

\* findPrevWindow that returns the tracked id when no entry is focused
RECURSIVE PrevScanNoSentinel(_, _, _)
PrevScanNoSentinel(V, k, prevnode) ==
    IF k > Len(V) \/ V[k].Focused THEN prevnode
    ELSE PrevScanNoSentinel(V, k + 1, V[k].Id)

findPrevNoSentinel(V) ==
    IF Len(V) = 0 THEN 0 ELSE PrevScanNoSentinel(V, 1, V[Len(V)].Id)

\* findPrevWindow seeded with the first entry instead of the last
findPrevSeedFirst(V) == IF Len(V) = 0 THEN 0 ELSE PrevScan(V, 1, V[1].Id)

findPrevWindow(V) == IF Len(V) = 0 THEN 0 ELSE PrevScan(V, 1, V[Len(V)].Id)

\* ------------------------------------------------- the window manager side
\* All ids of a subtree.
RECURSIVE AllIds(_)
AllIds(node) ==
    {node.Id}
      \cup UNION {AllIds(node.Nodes[k]) : k \in 1..Len(node.Nodes)}
      \cup UNION {AllIds(node.FloatingNodes[k]) : k \in 1..Len(node.FloatingNodes)}

\* sway executing "[con_id=<fid>] focus": exactly the node with that id is focused.
RECURSIVE SetFocus(_, _)
SetFocus(node, fid) ==
    [node EXCEPT
        !.Focused = (node.Id = fid),
        !.Nodes = [k \in 1..Len(node.Nodes) |-> SetFocus(node.Nodes[k], fid)],
        !.FloatingNodes =
            [k \in 1..Len(node.FloatingNodes) |-> SetFocus(node.FloatingNodes[k], fid)]]

\* id of the focused node of a subtree, 0 if none
RECURSIVE FocusedId(_)
FocusedId(node) ==
    LET below == {FocusedId(node.Nodes[k]) : k \in 1..Len(node.Nodes)}
                   \cup {FocusedId(node.FloatingNodes[k]) :
                           k \in 1..Len(node.FloatingNodes)}
    IN  IF node.Focused THEN node.Id
        ELSE IF below \ {0} = {} THEN 0
        ELSE CHOOSE f \in below \ {0} : TRUE

\* ----------------------------------------------------- trees sway can report
SeqsUpTo(S, n) == UNION {[1..m -> S] : m \in 0..n}

Leaf(nid, type, window, app) == Node(nid, type, "", <<>>, <<>>, window, app, "")

\* One child of the current workspace, with ids from b on:
\*   W  a tiled window                A  a window with an app_id only
\*   L  a layout container holding a window, a nested layout container with a
\*      window, an empty layout container and a floating window
\*   E  a window-bearing container that has children of its own
\*   F  a floating window             G  a floating layout container with a window
Item(code, b) ==
    CASE code = "W" -> Leaf(b, "con", 1, "")
      [] code = "A" -> Leaf(b, "con", 0, "app")
      [] code = "F" -> Leaf(b, "floating_con", 1, "")
      [] code = "G" -> Node(b, "floating_con", "", <<Leaf(b + 1, "con", 1, "")>>,
                            <<>>, 0, "", "")
      [] code = "E" -> Node(b, "con", "", <<Leaf(b + 1, "con", 1, "")>>,
                            <<Leaf(b + 2, "floating_con", 0, "app")>>, 1, "", "")
      [] code = "L" -> Node(b, "con", "",
                            <<Leaf(b + 1, "con", 1, ""),
                              Node(b + 2, "con", "", <<Leaf(b + 3, "con", 0, "app")>>,
                                   <<>>, 0, "", ""),
                              Leaf(b + 4, "con", 0, "")>>,
                            <<Leaf(b + 5, "floating_con", 1, "")>>, 0, "", "")

TiledCodes == {"W", "L", "E"}
FloatLists == {<<>>, <<"F">>, <<"G", "F">>}

\* workspace "1" with the given tiled and floating children
Ws1(ns, fs) ==
    Node(4, "workspace", "1",
         [p \in 1..Len(ns) |-> Item(ns[p], 10 * p)],
         [q \in 1..Len(fs) |-> Item(fs[q], 10 * (Len(ns) + q))],
         0, "", "")

Ws3 == Node(5, "workspace", "3", <<Leaf(7, "con", 1, "")>>, <<>>, 0, "", "")
Ws2 == Node(6, "workspace", "2", <<Leaf(8, "con", 1, "")>>,
            <<Leaf(9, "floating_con", 1, "")>>, 0, "", "")

\* the output showing workspace "1"; its other workspace "3" before or after it
Output1(ws1, first) ==
    Node(2, "output", "eDP-1",
         IF first THEN <<ws1, Ws3>> ELSE <<Ws3, ws1>>, <<>>, 0, "", "1")

\* a second output: without current_workspace (as sway's __i3) or showing "2"
Output2(cw) == Node(3, "output", "HDMI-1", <<Ws2>>, <<>>, 0, "", cw)

\* the lists of outputs sway may report around workspace "1"
OutputLists(ws1) ==
    <<<<Output1(ws1, TRUE)>>,
      <<Output1(ws1, FALSE)>>,
      <<Output2(""), Output1(ws1, TRUE)>>,
      <<Output1(ws1, FALSE), Output2("")>>,
      <<Output1(ws1, TRUE), Output2("2")>>,
      <<Output2("2"), Output1(ws1, TRUE)>>>>

Layouts == 1..6

Root(type, outs) == Node(1, type, "root", outs, <<>>, 0, "", "")

RegularTree(ns, fs, k) == Root("root", OutputLists(Ws1(ns, fs))[k])

\* trees at the edge of what processJSON accepts
OddTrees ==
    {Root("root", <<>>), Root("", <<>>), Root("root", <<Output2("")>>),
     Root("", <<Output1(Ws1(<<"W", "L">>, <<"F">>), TRUE)>>)}

\* focus is on no node, or on one node at or below a workspace
FocusChoices(t) == {0} \cup (AllIds(t) \ {1, 2, 3})

\* sway's tree at the start: one of the trees above, with one focus choice
Trees(t) ==
    \/ \E ns \in SeqsUpTo(TiledCodes, MaxNodes), fs \in FloatLists, k \in Layouts :
         \E fid \in FocusChoices(RegularTree(ns, fs, k)) :
            t = SetFocus(RegularTree(ns, fs, k), fid)
    \/ \E odd \in OddTrees :
         \E fid \in FocusChoices(odd) : t = SetFocus(odd, fid)

\* ------------------------------------------------------- the ipc library
\* What ipc.RunContainerCommand(id, "focus") can hand back: the command ran; sway
\* rejected it (first response success=false, with sway's error text); or the
\* exchange broke, leaving no response at all (sway may or may not have acted).
RunOutcomes ==
    {[responses |-> <<[Success |-> TRUE, Error |-> ""]>>, err |-> FALSE, moved |-> TRUE],
     [responses |-> <<[Success |-> FALSE, Error |-> "no matching node"]>>,
      err |-> TRUE, moved |-> FALSE],
     [responses |-> <<>>, err |-> TRUE, moved |-> FALSE],
     [responses |-> <<>>, err |-> TRUE, moved |-> TRUE]}

Request(type, target, cmd) == [type |-> type, con_id |-> target, cmd |-> cmd]

LogRec(level, msg, target, error) ==
    [level |-> level, msg |-> msg, con_id |-> target, error |-> error]

Ids(V) == [k \in 1..Len(V) |-> V[k].Id]

\* ------------------------------------------------------------------- main
Init ==
    /\ Trees(tree)
    /\ sway = <<>>
    /\ Visibles = <<>>
    /\ CurrentWorkspace = ""
    /\ Previous \in BOOLEAN
    /\ Notswitch \in BOOLEAN
    /\ pc = "start"
    /\ id = 0
    /\ conn = "none"
    /\ sent = <<>>
    /\ exit = -1
    /\ logs = <<>>
    /\ reply = <<>>
    /\ runs = 0
    /\ lists = <<>>
    /\ invocations = 1
    /\ hist = <<FocusedId(tree)>>

\* logging the error without leaving the process: main carries on after it
LogAndGoOn(msg, target, error) ==
    /\ logs' = Append(logs, LogRec("fatal", msg, target, error))
    /\ exit' = exit
    /\ pc' = "connected"

\* logging the error and staying at the failed step, which is then tried again
LogAndRetry(msg, target, error) ==
    /\ logs' = Append(logs, LogRec("fatal", msg, target, error))
    /\ exit' = exit
    /\ pc' = pc

\* log.Fatal / log.Fatalf: print, then os.Exit(1); deferred calls do not run
Fatal(msg, target, error) ==
    /\ logs' = Append(logs, LogRec("fatal", msg, target, error))
    /\ exit' = 1
    /\ pc' = "exited"

\* err := ipc.Connect(); on success defer ipc.Close()
Connect ==
    /\ pc = "start"
    /\ \E ok \in BOOLEAN :
         IF ok
         THEN /\ conn' = "open"
              /\ pc' = "connected"
              /\ UNCHANGED <<logs, exit>>
         ELSE /\ Fatal("connect", 0, "connect failed")
              /\ UNCHANGED conn
    /\ UNCHANGED <<tree, sway, Visibles, CurrentWorkspace, Previous, Notswitch, id,
                   sent, reply, runs, lists, invocations, hist>>

\* sway, err := ipc.GetTree()
GetTree ==
    /\ pc = "connected"
    /\ sent' = Append(sent, Request(IPC_GET_TREE, 0, ""))
    /\ \E ok \in BOOLEAN :
         IF ok
         THEN /\ sway' = <<tree>>
              /\ pc' = "tree"
              /\ UNCHANGED <<logs, exit>>
         ELSE /\ Fatal("get_tree", 0, "protocol error")
              /\ UNCHANGED sway
    /\ UNCHANGED <<tree, Visibles, CurrentWorkspace, Previous, Notswitch, id, conn,
                   reply, runs, lists, invocations, hist>>

\* processJSON(sway), then the test for an empty Visibles
Resolve ==
    /\ pc = "tree"
    /\ LET r == processJSON(sway[1], Visibles, CurrentWorkspace)
       IN  /\ sway' = <<r.sway>>
           /\ Visibles' = r.Visibles
           /\ CurrentWorkspace' = r.CurrentWorkspace
           /\ runs' = runs + 1
           /\ lists' = Append(lists, Ids(r.Visibles))
           /\ IF r.err
              THEN Fatal("Invalid or empty JSON structure", 0, "")
              ELSE IF Len(r.Visibles) = 0
                   THEN \* os.Exit(0)
                        /\ exit' = 0
                        /\ pc' = "exited"
                        /\ UNCHANGED logs
                   ELSE /\ pc' = "select"
                        /\ UNCHANGED <<logs, exit>>
    /\ UNCHANGED <<tree, Previous, Notswitch, id, conn, sent, reply, invocations,
                   hist>>

\* id = findPrevWindow() / findNextWindow(); without a switch main returns and the
\* deferred ipc.Close() runs
Select ==
    /\ pc = "select"
    /\ id' = IF Previous THEN findPrevWindow(Visibles) ELSE findNextWindow(Visibles)
    /\ IF id' > 0 /\ ~Notswitch
       THEN /\ pc' = "switch"
            /\ UNCHANGED <<conn, exit>>
       ELSE /\ pc' = "exited"
            /\ conn' = "closed"
            /\ exit' = 0
    /\ UNCHANGED <<tree, sway, Visibles, CurrentWorkspace, Previous, Notswitch, sent,
                   logs, reply, runs, lists, invocations, hist>>

\* switchFocus(id, ipc), then the return of main
SwitchFocus ==
    /\ pc = "switch"
    /\ sent' = Append(sent, Request(IPC_RUN_COMMAND, id, "focus"))
    /\ \E o \in RunOutcomes :
         /\ reply' = <<o>>
         /\ tree' = IF o.moved THEN SetFocus(tree, id) ELSE tree
         /\ hist' = IF o.moved THEN Append(hist, id) ELSE hist
         /\ IF o.err
            THEN IF Len(o.responses) = 0
                 THEN \* responses[0] panics: deferred Close runs, exit status 2
                      /\ logs' = Append(logs, LogRec("panic", "index out of range", id, ""))
                      /\ conn' = "closed"
                      /\ exit' = 2
                      /\ pc' = "exited"
                 ELSE /\ Fatal("failed to send focus command to container", id,
                               o.responses[1].Error)
                      /\ UNCHANGED conn
            ELSE /\ logs' = Append(logs, LogRec("info", "switched focus", id, ""))
                 /\ conn' = "closed"
                 /\ exit' = 0
                 /\ pc' = "exited"
    /\ UNCHANGED <<sway, Visibles, CurrentWorkspace, Previous, Notswitch, id, runs,
                   lists, invocations>>

Next == Connect \/ GetTree \/ Resolve \/ Select \/ SwitchFocus

Spec == Init /\ [][Next]_vars

\* ------------------------------------------------------ reading the tree
Range(f) == {f[k] : k \in DOMAIN f}

Children(node) == Range(node.Nodes) \cup Range(node.FloatingNodes)

\* all nodes strictly below a node, through ordinary and floating children
RECURSIVE Below(_)
Below(node) == Children(node) \cup UNION {Below(c) : c \in Children(node)}

\* window-bearing: type con or floating_con with a window handle or an app_id
Bearing(n) ==
    /\ n.Type \in {"con", "floating_con"}
    /\ (n.Window > 0 \/ n.X11Window # "")

\* ids of the window-bearing nodes below a node
BearingBelow(node) == {n.Id : n \in {m \in Below(node) : Bearing(m)}}

\* ids of the window-bearing nodes below a node that lie under no other
\* window-bearing node on the way down
RECURSIVE OuterBearing(_)
OuterBearing(node) ==
    UNION {IF Bearing(c) THEN {c.Id} ELSE OuterBearing(c) : c \in Children(node)}

Outputs(t) == {k \in 1..Len(t.Nodes) : t.Nodes[k].Current_workspace # ""}

\* the workspace children of output o that carry its current_workspace name
Matching(o) ==
    {k \in 1..Len(o.Nodes) :
        o.Nodes[k].Type = "workspace" /\ o.Nodes[k].Name = o.Current_workspace}

\* exactly one output names an active workspace, matched by one workspace child
OneActive(t) ==
    /\ Cardinality(Outputs(t)) = 1
    /\ \A k \in Outputs(t) : Cardinality(Matching(t.Nodes[k])) = 1

ActiveOutput(t) == t.Nodes[CHOOSE k \in Outputs(t) : TRUE]
ActiveWorkspace(t) ==
    LET o == ActiveOutput(t) IN o.Nodes[CHOOSE k \in Matching(o) : TRUE]

\* ids of everything below the other workspaces of the active output and below
\* the other outputs
Elsewhere(t) ==
    UNION {AllIds(n) : n \in (Range(t.Nodes) \cup Range(ActiveOutput(t).Nodes))
                               \ {ActiveOutput(t), ActiveWorkspace(t)}}

VisibleIds == Range(Ids(Visibles))

\* the list as main sees it after a successful processJSON
Resolved == runs = 1 /\ pc \in {"select", "switch", "exited"} /\ Len(logs) = 0

\* C1 (as stated): with one active output and one matching workspace, the
\* list holds every window-bearing node below that workspace and nothing from
\* another workspace or output.
C1_AllBearingListed ==
    (Resolved /\ OneActive(tree)) =>
        /\ BearingBelow(ActiveWorkspace(tree)) \subseteq VisibleIds
        /\ VisibleIds \cap Elsewhere(tree) = {}

\* C1 (amended): the list holds every window-bearing node below the active
\* workspace that is not itself below a window-bearing node, and nothing from
\* another workspace or output.
C1_OuterBearingListed ==
    (Resolved /\ OneActive(tree)) =>
        /\ OuterBearing(ActiveWorkspace(tree)) \subseteq VisibleIds
        /\ VisibleIds \cap Elsewhere(tree) = {}

\* C1 witness: a resolved list with a nested layout, a floating window, and
\* windows on another workspace and another output that stay out of it.
C1_Witness ==
    /\ Resolved /\ OneActive(tree)
    /\ Len(tree.Nodes) = 2
    /\ {11, 13, 15, 20, 30} \subseteq VisibleIds
    /\ {7, 8, 9} \subseteq Elsewhere(tree)

\* ------------------------------------------------------------ selection
FocusedAt(V) == {k \in 1..Len(V) : V[k].Focused}

\* main has run its selector on a non-empty list
Selected == pc \in {"switch", "exited"} /\ Len(Visibles) > 0

\* the list with the focus moved to the entries whose id is target
Refocus(V, target) == [k \in 1..Len(V) |-> [V[k] EXCEPT !.Focused = (V[k].Id = target)]]

\* C2: with one focused entry at position i of n, forward selection yields
\* the id at position (i+1) mod n, wrapping from the last entry to the first;
\* with no focused entry it yields 0.
C2_NextIsSuccessor ==
    (Selected /\ ~Previous) =>
        LET n == Len(Visibles)
        IN  /\ \A i \in 1..n :
                 FocusedAt(Visibles) = {i} => id = Visibles[(i % n) + 1].Id
            /\ FocusedAt(Visibles) = {} => id = 0

\* C2 witness: the last of at least three entries is focused and the first is chosen.
C2_Witness ==
    /\ Selected /\ ~Previous
    /\ Len(Visibles) >= 3
    /\ FocusedAt(Visibles) = {Len(Visibles)}
    /\ id = Visibles[1].Id

\* C3: with one focused entry at position i of n, backward selection yields
\* the id at position (i-1) mod n, wrapping from the first entry to the last,
\* and undoes a forward selection: next, focus moved there, then previous gives
\* the entry focused at the start.
C3_PrevIsPredecessor ==
    Selected =>
        LET n == Len(Visibles)
        IN  \A i \in 1..n :
              FocusedAt(Visibles) = {i} =>
                /\ Previous => id = Visibles[((i + n - 2) % n) + 1].Id
                /\ findPrevWindow(Refocus(Visibles, findNextWindow(Visibles)))
                     = Visibles[i].Id

\* C3 witness: the first of at least three entries is focused and the last is chosen.
C3_Witness ==
    /\ Selected /\ Previous
    /\ Len(Visibles) >= 3
    /\ FocusedAt(Visibles) = {1}
    /\ id = Visibles[Len(Visibles)].Id

\* ------------------------------------------------ the resolver on its own
\* processJSON called on a tree already held, up to MaxRuns times on the same
\* tree object, with nothing else touching the tree or the globals in between.
InitResolver ==
    /\ Trees(tree)
    /\ sway = <<tree>>
    /\ Visibles = <<>>
    /\ CurrentWorkspace = ""
    /\ Previous = FALSE
    /\ Notswitch = FALSE
    /\ pc = "resolver"
    /\ id = 0
    /\ conn = "none"
    /\ sent = <<>>
    /\ exit = -1
    /\ logs = <<>>
    /\ reply = <<>>
    /\ runs = 0
    /\ lists = <<>>
    /\ invocations = 1
    /\ hist = <<FocusedId(tree)>>

ResolveAgain ==
    /\ pc = "resolver"
    /\ runs < MaxRuns
    /\ LET r == processJSON(sway[1], Visibles, CurrentWorkspace)
       IN  /\ sway' = <<r.sway>>
           /\ Visibles' = r.Visibles
           /\ CurrentWorkspace' = r.CurrentWorkspace
           /\ runs' = runs + 1
           /\ lists' = Append(lists, Ids(r.Visibles))
    /\ UNCHANGED <<tree, Previous, Notswitch, pc, id, conn, sent, exit, logs, reply,
                   invocations, hist>>

NextResolver == ResolveAgain

SpecResolver == InitResolver /\ [][NextResolver]_vars

\* C4: a second run of the resolver on the same unchanged tree produces the
\* same ordered list as the first run.
C4_SecondRunSameList == runs >= 2 => lists[2] = lists[1]

\* ------------------------------------------------- successive invocations
\* The key binding runs swaycycle again, with the same flags, once the previous
\* invocation has exited having moved the focus; sway keeps its tree.
Invoke ==
    /\ pc = "exited"
    /\ invocations < MaxInvocations
    /\ Len(hist) = invocations + 1
    /\ invocations' = invocations + 1
    /\ pc' = "start"
    /\ sway' = <<>>
    /\ Visibles' = <<>>
    /\ CurrentWorkspace' = ""
    /\ id' = 0
    /\ conn' = "none"
    /\ sent' = <<>>
    /\ exit' = -1
    /\ logs' = <<>>
    /\ reply' = <<>>
    /\ runs' = 0
    /\ lists' = <<>>
    /\ UNCHANGED <<tree, Previous, Notswitch, hist>>

InitCycle == Init /\ ~Previous /\ ~Notswitch

NextCycle == Next \/ Invoke

SpecCycle == InitCycle /\ [][NextCycle]_vars

\* the ids of the visible windows of sway's tree, as a fresh invocation lists them
VisibleOf(t) == Range(Ids(processJSON(t, <<>>, "").Visibles))

\* invocations that have run to their end
Completed == IF pc = "exited" THEN invocations ELSE invocations - 1

\* C6: with n >= 1 visible windows, one of them focused, and every focus
\* command carried out, n successive forward invocations give focus to every
\* visible window exactly once and end on the window focused at the start.
C6_CycleVisitsAll ==
    (~Previous /\ ~Notswitch /\ Len(hist) = Completed + 1) =>
        LET n == Cardinality(VisibleOf(tree))
        IN  (hist[1] \in VisibleOf(tree) /\ Completed = n)
            => /\ {hist[k] : k \in 2..(n + 1)} = VisibleOf(tree)
               /\ hist[n + 1] = hist[1]

\* C6 witness: four windows, four invocations, the focus back where it started.
C6_Witness ==
    /\ ~Previous /\ ~Notswitch
    /\ Cardinality(VisibleOf(tree)) = 4
    /\ hist[1] \in VisibleOf(tree)
    /\ Completed = 4
    /\ Len(hist) = 5
    /\ hist[5] = hist[1]

\* ------------------------------------------------------- the connection
\* C5: once opened, the connection is closed before the process exits, on
\* every exit path of main.
C5_ClosedBeforeExit == (pc = "exited" /\ conn # "none") => conn = "closed"

\* ------------------------------------------------------ what main sends
Commands == {k \in 1..Len(sent) : sent[k].type = IPC_RUN_COMMAND}
TreeRequests == {k \in 1..Len(sent) : sent[k].type = IPC_GET_TREE}

\* the output processJSON walks: the first one naming an active workspace
WalkedOutput(t) ==
    t.Nodes[CHOOSE k \in Outputs(t) : \A j \in Outputs(t) : k <= j]

WalkedWorkspaces(t) ==
    LET o == WalkedOutput(t) IN {o.Nodes[k] : k \in Matching(o)}

\* C7: if the active workspace has no window-bearing descendant the list is
\* empty; with an empty list of an accepted tree the process sends no focus
\* command, logs no error and exits with status 0.
C7_EmptyListIsSuccess ==
    /\ (/\ runs = 1
        /\ Outputs(tree) # {}
        /\ \A w \in WalkedWorkspaces(tree) : BearingBelow(w) = {})
       => Len(Visibles) = 0
    /\ (/\ runs = 1
        /\ Len(Visibles) = 0
        /\ (tree.Type = "root" \/ Len(tree.Nodes) > 0))
       => /\ pc = "exited"
          /\ exit = 0
          /\ logs = <<>>
          /\ Commands = {}

\* C7 witness: the active workspace is empty while another workspace and
\* another output have windows; the process has left with status 0.
C7_Witness ==
    /\ runs = 1
    /\ Len(tree.Nodes) = 2
    /\ Outputs(tree) # {}
    /\ WalkedOutput(tree).Current_workspace = "1"
    /\ \A w \in WalkedWorkspaces(tree) : BearingBelow(w) = {}
    /\ {7, 8} \subseteq AllIds(tree)
    /\ pc = "exited"
    /\ exit = 0

\* C8: a focus command is sent only for a target id > 0 and without the
\* no-switch flag; with no focused entry both selectors give 0 and nothing is
\* sent; with the no-switch flag the target is computed and nothing is sent.
C8_SwitchOnlyOnTarget ==
    /\ \A k \in Commands :
         sent[k].con_id > 0 /\ sent[k].con_id = id /\ ~Notswitch
    /\ pc = "switch" => (id > 0 /\ ~Notswitch)
    /\ (Selected /\ FocusedAt(Visibles) = {})
       => /\ id = 0
          /\ findNextWindow(Visibles) = 0
          /\ findPrevWindow(Visibles) = 0
          /\ Commands = {}
    /\ (Selected /\ Notswitch)
       => /\ Commands = {}
          /\ id = IF Previous THEN findPrevWindow(Visibles)
                  ELSE findNextWindow(Visibles)

\* C8 witness: the no-switch flag is set, a target was found, nothing was sent.
C8_Witness ==
    /\ Selected /\ Notswitch
    /\ pc = "exited"
    /\ id > 0
    /\ Commands = {}

\* C9: when the response array of the focus command is empty or its first
\* element has success=false, switchFocus ends with a command-rejected error
\* carrying sway's error text; the switch is logged at info level with the
\* target id only when the command succeeded.
C9_RejectedIsReported ==
    (pc = "exited" /\ reply # <<>>) =>
        LET o == reply[1]
            last == logs[Len(logs)]
        IN  /\ Len(logs) = 1
            /\ IF Len(o.responses) = 0 \/ ~o.responses[1].Success
               THEN /\ last.level = "fatal"
                    /\ exit = 1
                    /\ Len(o.responses) > 0 => last.error = o.responses[1].Error
               ELSE /\ last.level = "info"
                    /\ last.con_id = id

\* C10: when connecting or the tree request fails the process ends at once:
\* the resolver has not run, the list is empty, no focus command was sent and
\* the tree was requested at most once.
C10_EarlyFailureIsFatal ==
    (Len(logs) > 0 /\ logs[1].msg \in {"connect", "get_tree"}) =>
        /\ pc = "exited"
        /\ exit = 1
        /\ Len(logs) = 1
        /\ runs = 0
        /\ sway = <<>>
        /\ Visibles = <<>>
        /\ Commands = {}
        /\ Cardinality(TreeRequests) <= 1

\* C10 witness: the tree request failed on an open connection although sway
\* has visible windows to report.
C10_Witness ==
    /\ Len(logs) = 1
    /\ logs[1].msg = "get_tree"
    /\ pc = "exited"
    /\ conn = "open"
    /\ Cardinality(VisibleOf(tree)) >= 3

\* ------------------------------------------------- containers with windows
\* C11: a window-bearing con or floating_con that has children of its own
\* is put on the list and not descended into: none of its descendants is on
\* the list.
C11_BearingNotDescended ==
    (Resolved /\ Outputs(tree) # {}) =>
        \A w \in WalkedWorkspaces(tree) :
          \A n \in Below(w) :
            (Bearing(n) /\ Children(n) # {} /\ n.Id \in OuterBearing(w))
            => /\ n.Id \in VisibleIds
               /\ \A d \in Below(n) : d.Id \notin VisibleIds

\* C11 witness: container 10 carries a window and has the window-bearing
\* children 11 and 12; 10 is on the list beside another window, 11 and 12 are not.
C11_Witness ==
    /\ Resolved /\ Outputs(tree) # {}
    /\ \E w \in WalkedWorkspaces(tree) :
         \E n \in Below(w) :
            /\ n.Id = 10 /\ Bearing(n)
            /\ {d.Id : d \in {c \in Children(n) : Bearing(c)}} = {11, 12}
    /\ {10, 20} \subseteq VisibleIds
    /\ VisibleIds \cap {11, 12} = {}

\* ------------------------------------------------------ the invalid tree
\* main has reported processJSON's error
Rejected == Len(logs) > 0 /\ logs[1].msg = "Invalid or empty JSON structure"

\* C12: processJSON rejects the tree exactly when the root node is not of
\* type root and has no children, and then adds nothing to the list; a root
\* without children and a non-root node with children are accepted.
C12_RejectsOnlyBareNonRoot ==
    runs = 1 =>
        /\ Rejected <=> (tree.Type # "root" /\ Len(tree.Nodes) = 0)
        /\ Rejected => (Visibles = <<>> /\ exit = 1 /\ pc = "exited")

\* C12 witness: a childless node that is not of type root has been rejected.
C12_Witness ==
    /\ runs = 1
    /\ tree.Type # "root" /\ Len(tree.Nodes) = 0
    /\ Rejected
    /\ Visibles = <<>>

\* ------------------------------------------------------ the walked output
\* the children of the root other than the walked output
OtherOutputs(t) == Range(t.Nodes) \ {WalkedOutput(t)}

\* C13: processJSON walks only the first child of the root that names an
\* active workspace and records that name; windows below every other output
\* stay off the list; if no child names an active workspace the list stays
\* empty and there is no error.
C13_FirstNamedOutputOnly ==
    (runs = 1 /\ ~Rejected) =>
        IF Outputs(tree) = {}
        THEN /\ Visibles = <<>>
             /\ CurrentWorkspace = ""
             /\ logs = <<>>
             /\ exit = 0
        ELSE /\ CurrentWorkspace = WalkedOutput(tree).Current_workspace
             /\ VisibleIds = UNION {OuterBearing(w) : w \in WalkedWorkspaces(tree)}
             /\ VisibleIds \subseteq AllIds(WalkedOutput(tree))
             /\ \A o \in OtherOutputs(tree) : VisibleIds \cap AllIds(o) = {}

\* C13 witness: two outputs name an active workspace; the first one, showing
\* "2", was walked and the windows of the second one are not on the list.
C13_Witness ==
    /\ runs = 1 /\ ~Rejected
    /\ Cardinality(Outputs(tree)) = 2
    /\ CurrentWorkspace = "2"
    /\ VisibleIds = {8, 9}
    /\ \E o \in OtherOutputs(tree) :
         o.Current_workspace = "1" /\ Cardinality(BearingBelow(o)) >= 3

\* ------------------------------------------------------ order of the list
\* Document order below a node: its ordinary children left to right, then its
\* floating children left to right; a window-bearing child contributes its id,
\* any other child the order below it.
RECURSIVE OrderOf(_)
RECURSIVE OrderOfList(_, _)
OrderOfList(cs, k) ==
    IF k > Len(cs) THEN <<>>
    ELSE (IF Bearing(cs[k]) THEN <<cs[k].Id>> ELSE OrderOf(cs[k]))
           \o OrderOfList(cs, k + 1)

OrderOf(node) == OrderOfList(node.Nodes, 1) \o OrderOfList(node.FloatingNodes, 1)

\* C14: the list is in depth-first document order below the matched
\* workspace, ordinary children before floating children at every node
\* descended into, siblings left to right; selecting and switching leave the
\* list as the resolver built it.
C14_DocumentOrder ==
    (runs = 1 /\ ~Rejected) =>
        /\ Ids(Visibles) = lists[1]
        /\ (Outputs(tree) # {} /\ Cardinality(WalkedWorkspaces(tree)) = 1)
           => \A w \in WalkedWorkspaces(tree) : lists[1] = OrderOf(w)

\* C14 witness: the floating window 15 of container 10 comes after the tiled
\* windows 11 and 13 below 10 and before the tiled sibling 20; the floating
\* window 30 of the workspace comes last; a selector has run on that list.
C14_Witness ==
    /\ runs = 1 /\ Selected
    /\ pc = "exited"
    /\ Ids(Visibles) = <<11, 13, 15, 20, 30>>

\* ------------------------------------------------ order of the exchanges
\* C15: one invocation connects, sends exactly one tree request, then at
\* most one focus command, then exits; the focus command comes only after the
\* tree was received and resolved, and no request is sent twice.
C15_ExchangeOrder ==
    /\ Len(sent) <= 2
    /\ Len(sent) >= 1 => (sent[1].type = IPC_GET_TREE /\ conn # "none")
    /\ Len(sent) = 2 => sent[2].type = IPC_RUN_COMMAND
    /\ pc \in {"start", "connected"} => sent = <<>>
    /\ pc \in {"tree", "select", "switch"} => (Len(sent) = 1 /\ conn = "open")
    /\ Commands # {} => (pc = "exited" /\ runs = 1 /\ sway # <<>> /\ ~Rejected)
    /\ (pc = "exited" /\ conn # "none") => Cardinality(TreeRequests) = 1

\* C15 witness: the invocation has exited after the tree request and one
\* focus command, in that order.
C15_Witness ==
    /\ pc = "exited"
    /\ Len(sent) = 2
    /\ sent[1].type = IPC_GET_TREE
    /\ sent[2].type = IPC_RUN_COMMAND
    /\ runs = 1

\* ------------------------------------------------------------ the target
\* C16: every focus command targets the id of an entry of the list built in
\* this invocation; with at least two entries of distinct ids and exactly one
\* focused entry, the selected target is an entry other than the focused one,
\* forward and backward.
C16_TargetIsAnotherVisible ==
    /\ \A k \in Commands : sent[k].con_id \in VisibleIds
    /\ (/\ Selected
        /\ Len(Visibles) >= 2
        /\ Cardinality(VisibleIds) = Len(Visibles)
        /\ Cardinality(FocusedAt(Visibles)) = 1)
       => /\ id \in VisibleIds
          /\ \A i \in FocusedAt(Visibles) : id # Visibles[i].Id
          /\ findNextWindow(Visibles) \notin {Visibles[i].Id : i \in FocusedAt(Visibles)}
          /\ findPrevWindow(Visibles) \notin {Visibles[i].Id : i \in FocusedAt(Visibles)}

\* C16 witness: a focus command was sent to an unfocused entry of a list of
\* at least three entries, cycling backward.
C16_Witness ==
    /\ Selected /\ Previous
    /\ Len(Visibles) >= 3
    /\ Cardinality(FocusedAt(Visibles)) = 1
    /\ Commands # {}
    /\ \A k \in Commands :
         /\ sent[k].con_id \in VisibleIds
         /\ \A i \in FocusedAt(Visibles) : sent[k].con_id # Visibles[i].Id

====
